---- MODULE Spec2Model ----
\* The request handlers of src/app/mod.rs (Object::read, Set::read, Sign::sign,
\* Healthz::healthz) and their pure helpers, as a state machine over the
\* requests the service is handling.
EXTENDS Naturals, Sequences, FiniteSets, TLC

VARIABLES reqs      \* reqs[r]: the handler state of request r

vars == <<reqs>>

-----------------------------------------------------------------------------
\* Bounds of the model.

\* Requests handled in one behaviour (they may all be in flight together).
MaxReq == 2
\* Longest set / object name drawn in the canonical-key specification.
MaxLen == 2

-----------------------------------------------------------------------------
\* Values.  A String that the code takes apart or concatenates (set, object,
\* storage key) is a sequence of characters; a String the code only compares
\* or passes on (bucket, method, literal path segments) is a TLA+ string.

None == <<>>
Some(x) == <<x>>
IsSome(o) == Len(o) = 1
Unwrap(o) == o[1]

Ok(v) == [ok |-> TRUE, val |-> v]
Err(e) == [ok |-> FALSE, val |-> e]

Anonymous == "anonymous"

thumbs == <<"t", "h", "u", "m", "b", "s">>
catpng == <<"c", "a", "t", ".", "p", "n", "g">>

Alphabet == {"a", "."}
Strings == UNION {[1..n -> Alphabet] : n \in 0..MaxLen}

\* Inputs of the concurrent specification.
Subjects == {Anonymous, "alice"}
Buckets == {"media", "nowhere"}
SetNames == {thumbs}
ObjectNames == {catpng}
Methods == {"GET", "PUT", "PATCH"}
HeaderMaps == {<<>>}

\* Inputs of the one-request specification.
WideBuckets == {"media", "docs", "nowhere"}
WideSetNames == {thumbs, <<"a">>}
WideObjectNames == {catpng, <<"a">>}
WideMethods == {"HEAD", "GET", "PUT", "DELETE", "PATCH", "get", ""}
WideHeaderMaps == {<<>>, [h \in {"range"} |-> "bytes=0-9"]}

\* Answers of the authorization provider to one authorize call.
AuthzOutcomes == {"allow", "deny", "error"}

-----------------------------------------------------------------------------
\* Collaborators outside src/app/mod.rs.

\* config.authz: the audience rules the estimator is built from.
AudienceRules == [b \in {"media", "docs"} |->
                    IF b = "media" THEN "example.org" ELSE "example.net"]

\* util::AudienceEstimator::estimate
estimate(bucket) ==
    IF bucket \in DOMAIN AudienceRules
    THEN Ok(AudienceRules[bucket])
    ELSE Err([kind |-> "audience_estimation_error", status |-> "unspecified"])

\* s3::Client::presigned_url
presigned_url(method, bucket, object) ==
    <<"presigned", method, bucket, object>>

\* util::S3SignedRequestBuilder: new, method, bucket, object, add_header
BuilderNew == [method |-> None, bucket |-> None, object |-> None, headers |-> <<>>]
BuilderMethod(b, method) == [b EXCEPT !.method = Some(method)]
BuilderBucket(b, bucket) == [b EXCEPT !.bucket = Some(bucket)]
BuilderObject(b, object) == [b EXCEPT !.object = Some(object)]
add_header(b, key, val) ==
    [b EXCEPT !.headers = [k \in DOMAIN @ \cup {key} |-> IF k = key THEN val ELSE @[k]]]

\* util::S3SignedRequestBuilder::build: the storage client signs the
\* specification or rejects it.
build(b, accepted) ==
    IF accepted
    THEN Ok(<<"signed", Unwrap(b.method), Unwrap(b.bucket), Unwrap(b.object), b.headers>>)
    ELSE Err([kind |-> "signed_request_build_error", status |-> "unspecified"])

-----------------------------------------------------------------------------
\* Pure helpers of src/app/mod.rs.

\* parse_action matching the method without regard to case.
parse_action_nocase(method) ==
    CASE method \in {"HEAD", "head"} -> Ok("read")
      [] method \in {"GET", "get"} -> Ok("read")
      [] method \in {"PUT", "put"} -> Ok("update")
      [] method \in {"DELETE", "delete"} -> Ok("delete")
      [] OTHER -> Err(<<"invalid method = ", method>>)

\* parse_action with a catch-all arm that maps to read.
parse_action_lenient(method) ==
    CASE method = "HEAD" -> Ok("read")
      [] method = "GET" -> Ok("read")
      [] method = "PUT" -> Ok("update")
      [] method = "DELETE" -> Ok("delete")
      [] OTHER -> Ok("read")

\* parse_action authorizing PUT as a read.
parse_action_putread(method) ==
    CASE method = "HEAD" -> Ok("read")
      [] method = "GET" -> Ok("read")
      [] method = "PUT" -> Ok("read")
      [] method = "DELETE" -> Ok("delete")
      [] OTHER -> Err(<<"invalid method = ", method>>)

parse_action(method) ==
    CASE method = "HEAD" -> Ok("read")
      [] method = "GET" -> Ok("read")
      [] method = "PUT" -> Ok("update")
      [] method = "DELETE" -> Ok("delete")
      [] OTHER -> Err(<<"invalid method = ", method>>)

\* s3_object with its arguments swapped in the format string.
s3_object_swapped(set, object) == object \o <<".">> \o set

\* s3_object without the separator.
s3_object_nosep(set, object) == set \o object

s3_object(set, object) == set \o <<".">> \o object

redirect(uri) ==
    Ok([status |-> "303", location |-> Some(uri), uri |-> None, body |-> ""])

\* SignResponse { uri }, #[web(status = "200")]
SignResponse(uri) ==
    [status |-> "200", location |-> None, uri |-> Some(uri), body |-> ""]

\* The sign error built with StatusCode::BAD_REQUEST.
sign_error_bad_request(detail) ==
    [kind |-> "sign_error", status |-> "400", detail |-> detail]

\* Error::builder().kind("sign_error", "Error signing a request")
\*     .status(StatusCode::FORBIDDEN).detail(..).build()
sign_error(detail) ==
    [kind |-> "sign_error", status |-> "403", detail |-> detail]

-----------------------------------------------------------------------------
\* Request state.

Call(op, args) == [op |-> op, args |-> args]

Idle ==
    [pc |-> "idle", flow |-> "none",
     bucket |-> "", set |-> None, object |-> <<>>, method |-> "",
     headers |-> <<>>, sub |-> "",
     zobj |-> None, zact |-> None, key |-> None,
     trace |-> <<>>, held |-> None, outcome |-> "none", response |-> None]

Init == reqs = [r \in 1..MaxReq |-> Idle]

\* Requests arrive in the order of their numbers.
Arrives(r) ==
    /\ reqs[r].pc = "idle"
    /\ IF r = 1 THEN TRUE ELSE reqs[r - 1].pc # "idle"

\* The handler's arguments, as extracted from the request.
Received(flow, bucket, set, object, method, headers, sub) ==
    [Idle EXCEPT !.flow = flow, !.bucket = bucket, !.set = set,
                 !.object = object, !.method = method, !.headers = headers,
                 !.sub = sub]

\* The handler returned future::ok(result) without suspending.
Ready(req, trace, result) ==
    [req EXCEPT !.pc = "done", !.trace = trace, !.response = Some(result)]

\* The handler returned authorize(..).then(|_| future::ok(result)): the call
\* is in flight and the continuation holds the result.
Suspended(req, trace, result) ==
    [req EXCEPT !.pc = "pending", !.trace = trace, !.held = Some(result)]

-----------------------------------------------------------------------------
\* Handlers.

\* Object::read falling back to the subject's own audience when the
\* estimation fails, instead of returning the error.
ObjectRead_fallback(r, bucket, object, sub) ==
    /\ Arrives(r)
    /\ LET zobj == <<"buckets", bucket, "objects", object>>
           zact == "read"
           resp == redirect(presigned_url("GET", bucket, object))
           audience == estimate(bucket)
           req == [Received("object", bucket, None, object, "GET", <<>>, sub)
                     EXCEPT !.zobj = Some(zobj), !.zact = Some(Ok(zact)),
                            !.key = Some(object)]
           t == <<Call("presigned_url", <<"GET", bucket, object>>),
                  Call("estimate", <<bucket>>)>>
           aud == IF audience.ok THEN audience.val ELSE sub
       IN  reqs' = [reqs EXCEPT ![r] = Suspended(req,
                    Append(t, Call("authorize", <<aud, sub, zobj, zact>>)),
                    resp)]

\* GET /api/v1/buckets/:bucket/objects/:object
ObjectRead(r, bucket, object, sub) ==
    /\ Arrives(r)
    /\ LET zobj == <<"buckets", bucket, "objects", object>>
           zact == "read"
           resp == redirect(presigned_url("GET", bucket, object))
           audience == estimate(bucket)
           req == [Received("object", bucket, None, object, "GET", <<>>, sub)
                     EXCEPT !.zobj = Some(zobj), !.zact = Some(Ok(zact)),
                            !.key = Some(object)]
           t == <<Call("presigned_url", <<"GET", bucket, object>>),
                  Call("estimate", <<bucket>>)>>
       IN  IF audience.ok
           THEN reqs' = [reqs EXCEPT ![r] = Suspended(req,
                    Append(t, Call("authorize", <<audience.val, sub, zobj, zact>>)),
                    resp)]
           ELSE reqs' = [reqs EXCEPT ![r] = Ready(req, t, Err(audience.val))]

\* GET /api/v1/buckets/:bucket/sets/:set/objects/:object
SetRead(r, bucket, set, object, sub) ==
    /\ Arrives(r)
    /\ LET zobj == <<"buckets", bucket, "sets", set>>
           zact == "read"
           key == s3_object(set, object)
           resp == redirect(presigned_url("GET", bucket, key))
           audience == estimate(bucket)
           req == [Received("set", bucket, Some(set), object, "GET", <<>>, sub)
                     EXCEPT !.zobj = Some(zobj), !.zact = Some(Ok(zact)),
                            !.key = Some(key)]
           t == <<Call("presigned_url", <<"GET", bucket, key>>),
                  Call("estimate", <<bucket>>)>>
       IN  IF audience.ok
           THEN reqs' = [reqs EXCEPT ![r] = Suspended(req,
                    Append(t, Call("authorize", <<audience.val, sub, zobj, zact>>)),
                    resp)]
           ELSE reqs' = [reqs EXCEPT ![r] = Ready(req, t, Err(audience.val))]

\* sign_addressing authorizing the object of a set instead of the set.
sign_addressing_objgrain(body) ==
    IF IsSome(body.set)
    THEN <<s3_object(Unwrap(body.set), body.object),
           <<"buckets", body.bucket, "objects", body.object>>>>
    ELSE <<body.object,
           <<"buckets", body.bucket, "objects", body.object>>>>

\* let (object, zobj) = match body.set { .. }
sign_addressing(body) ==
    IF IsSome(body.set)
    THEN <<s3_object(Unwrap(body.set), body.object),
           <<"buckets", body.bucket, "sets", Unwrap(body.set)>>>>
    ELSE <<body.object,
           <<"buckets", body.bucket, "objects", body.object>>>>

\* The builder handed to build without the payload's headers.
add_headers_none(builder, headers) == builder

\* for (key, val) in body.headers { builder = builder.add_header(&key, &val) }
RECURSIVE add_headers(_, _)
add_headers(builder, headers) ==
    IF DOMAIN headers = {}
    THEN builder
    ELSE LET key == CHOOSE k \in DOMAIN headers : TRUE
         IN  add_headers(add_header(builder, key, headers[key]),
                         [k \in DOMAIN headers \ {key} |-> headers[k]])

\* Sign::sign estimating the audience before it builds the URI.
SignSign_estimate_first(r, body, sub, accepted) ==
    /\ Arrives(r)
    /\ LET addr == sign_addressing(body)
           object == addr[1]
           zobj == addr[2]
           zact == parse_action(body.method)
           req == [Received("sign", body.bucket, body.set, body.object,
                            body.method, body.headers, sub)
                     EXCEPT !.zobj = Some(zobj), !.zact = Some(zact),
                            !.key = Some(object)]
           builder == add_headers(
                          BuilderObject(BuilderBucket(
                              BuilderMethod(BuilderNew, body.method),
                              body.bucket), object),
                          body.headers)
           uri == build(builder, accepted)
           audience == estimate(body.bucket)
           t1 == <<Call("estimate", <<body.bucket>>)>>
           t2 == Append(t1, Call("build", <<builder>>))
       IN  IF ~zact.ok
           THEN reqs' = [reqs EXCEPT ![r] = Ready(req, <<>>, Err(sign_error(zact.val)))]
           ELSE IF ~audience.ok
           THEN reqs' = [reqs EXCEPT ![r] = Ready(req, t1, Err(audience.val))]
           ELSE IF ~uri.ok
           THEN reqs' = [reqs EXCEPT ![r] = Ready(req, t2, Err(uri.val))]
           ELSE reqs' = [reqs EXCEPT ![r] = Suspended(req,
                    Append(t2, Call("authorize", <<audience.val, sub, zobj, zact.val>>)),
                    Ok(SignResponse(uri.val)))]

\* POST /api/v1/sign; `accepted` is the storage client's answer to build,
\* should the handler ask for it.
SignSign(r, body, sub, accepted) ==
    /\ Arrives(r)
    /\ LET addr == sign_addressing(body)
           object == addr[1]
           zobj == addr[2]
           zact == parse_action(body.method)
           req == [Received("sign", body.bucket, body.set, body.object,
                            body.method, body.headers, sub)
                     EXCEPT !.zobj = Some(zobj), !.zact = Some(zact),
                            !.key = Some(object)]
           builder == add_headers(
                          BuilderObject(BuilderBucket(
                              BuilderMethod(BuilderNew, body.method),
                              body.bucket), object),
                          body.headers)
           uri == build(builder, accepted)
           audience == estimate(body.bucket)
           t1 == <<Call("build", <<builder>>)>>
           t2 == Append(t1, Call("estimate", <<body.bucket>>))
       IN  IF ~zact.ok
           THEN reqs' = [reqs EXCEPT ![r] = Ready(req, <<>>, Err(sign_error(zact.val)))]
           ELSE IF ~uri.ok
           THEN reqs' = [reqs EXCEPT ![r] = Ready(req, t1, Err(uri.val))]
           ELSE IF audience.ok
           THEN reqs' = [reqs EXCEPT ![r] = Suspended(req,
                    Append(t2, Call("authorize", <<audience.val, sub, zobj, zact.val>>)),
                    Ok(SignResponse(uri.val)))]
           ELSE reqs' = [reqs EXCEPT ![r] = Ready(req, t2, Err(audience.val))]

\* Healthz::healthz consulting the audience estimator before answering.
HealthzHealthz_probe(r) ==
    /\ Arrives(r)
    /\ reqs' = [reqs EXCEPT ![r] =
            Ready([Idle EXCEPT !.flow = "healthz"],
                  <<Call("estimate", <<"media">>)>>,
                  Ok([status |-> "200", location |-> None, uri |-> None, body |-> ""]))]

\* GET /healthz
HealthzHealthz(r) ==
    /\ Arrives(r)
    /\ reqs' = [reqs EXCEPT ![r] =
            Ready([Idle EXCEPT !.flow = "healthz"], <<>>,
                  Ok([status |-> "200", location |-> None, uri |-> None, body |-> ""]))]

\* The continuation issuing the authorize call again when it failed with a
\* provider error, instead of completing.
AuthzComplete_retry(r, outcome) ==
    /\ reqs[r].pc = "pending"
    /\ IF outcome = "error"
       THEN reqs' = [reqs EXCEPT ![r].trace =
                Append(@, reqs[r].trace[Len(reqs[r].trace)])]
       ELSE reqs' = [reqs EXCEPT ![r] =
                [reqs[r] EXCEPT !.pc = "done", !.outcome = outcome,
                                !.response = Some(Unwrap(reqs[r].held))]]

\* The continuation running again for a request that has already completed.
AuthzComplete_again(r, outcome) ==
    /\ IsSome(reqs[r].held)
    /\ reqs' = [reqs EXCEPT ![r] =
            [reqs[r] EXCEPT !.pc = "done", !.outcome = outcome,
                            !.response = Some(Unwrap(reqs[r].held))]]

\* The continuation delivering the artifact of the request that suspended
\* last, as if the handlers kept it in one shared place.
AuthzComplete_shared(r, outcome) ==
    /\ reqs[r].pc = "pending"
    /\ LET q == CHOOSE q \in 1..MaxReq :
                   /\ reqs[q].pc = "pending"
                   /\ \A p \in 1..MaxReq : reqs[p].pc = "pending" => p <= q
       IN  reqs' = [reqs EXCEPT ![r] =
               [reqs[r] EXCEPT !.pc = "done", !.outcome = outcome,
                               !.response = Some(Unwrap(reqs[q].held))]]

\* The authorization call of request r completes and .then(|_| ..) runs.
AuthzComplete(r, outcome) ==
    /\ reqs[r].pc = "pending"
    /\ reqs' = [reqs EXCEPT ![r] =
            [reqs[r] EXCEPT !.pc = "done", !.outcome = outcome,
                            !.response = Some(Unwrap(reqs[r].held))]]

-----------------------------------------------------------------------------
\* Specifications.

SignPayloads(buckets, sets, objects, methods, headerMaps) ==
    [bucket : buckets, set : {None} \cup {Some(s) : s \in sets},
     object : objects, method : methods, headers : headerMaps]

\* Several requests in flight, every flow.
Next ==
    \/ \E r \in 1..MaxReq, bucket \in Buckets, object \in ObjectNames, sub \in Subjects :
          ObjectRead(r, bucket, object, sub)
    \/ \E r \in 1..MaxReq, bucket \in Buckets, set \in SetNames,
          object \in ObjectNames, sub \in Subjects :
          SetRead(r, bucket, set, object, sub)
    \/ \E r \in 1..MaxReq, sub \in Subjects, accepted \in BOOLEAN,
          body \in SignPayloads(Buckets, SetNames, ObjectNames, Methods, HeaderMaps) :
          SignSign(r, body, sub, accepted)
    \/ \E r \in 1..MaxReq : HealthzHealthz(r)
    \/ \E r \in 1..MaxReq, outcome \in AuthzOutcomes : AuthzComplete(r, outcome)

Spec == Init /\ [][Next]_vars

\* Several requests of one caller in flight; the authorization provider
\* eventually answers every call issued to it.
LiveNext ==
    \/ \E r \in 1..MaxReq, bucket \in Buckets, object \in ObjectNames :
          ObjectRead(r, bucket, object, "alice")
    \/ \E r \in 1..MaxReq, bucket \in Buckets, set \in SetNames,
          object \in ObjectNames :
          SetRead(r, bucket, set, object, "alice")
    \/ \E r \in 1..MaxReq, accepted \in BOOLEAN,
          body \in SignPayloads(Buckets, SetNames, ObjectNames,
                                {"GET", "PATCH"}, HeaderMaps) :
          SignSign(r, body, "alice", accepted)
    \/ \E r \in 1..MaxReq : HealthzHealthz(r)
    \/ \E r \in 1..MaxReq, outcome \in AuthzOutcomes : AuthzComplete(r, outcome)

SpecLive ==
    /\ Init /\ [][LiveNext]_vars
    /\ \A r \in 1..MaxReq :
           WF_vars(\E outcome \in AuthzOutcomes : AuthzComplete(r, outcome))

\* One request, drawn from the wider input sets.
WideNext ==
    \/ \E bucket \in WideBuckets, object \in WideObjectNames, sub \in Subjects :
          ObjectRead(1, bucket, object, sub)
    \/ \E bucket \in WideBuckets, set \in WideSetNames,
          object \in WideObjectNames, sub \in Subjects :
          SetRead(1, bucket, set, object, sub)
    \/ \E sub \in Subjects, accepted \in BOOLEAN,
          body \in SignPayloads(WideBuckets, WideSetNames, WideObjectNames,
                                WideMethods, WideHeaderMaps) :
          SignSign(1, body, sub, accepted)
    \/ HealthzHealthz(1)
    \/ \E outcome \in AuthzOutcomes : AuthzComplete(1, outcome)

SpecWide == Init /\ [][WideNext]_vars

\* Two set reads over every short set and object name.
KeyNext ==
    \E r \in {1, 2}, set \in Strings, object \in Strings :
        SetRead(r, "media", set, object, "alice")

SpecKey == Init /\ [][KeyNext]_vars

-----------------------------------------------------------------------------
\* Vocabulary of the properties.

Requests == 1..MaxReq
Handled(r) == reqs[r].pc # "idle"
Done(r) == reqs[r].pc = "done"
Authorized(r) == reqs[r].flow \in {"object", "set", "sign"}
Delivered(r) == Unwrap(reqs[r].response)
CallsOf(r, op) == {i \in 1..Len(reqs[r].trace) : reqs[r].trace[i].op = op}
HasLocation(resp) == resp.ok /\ IsSome(resp.val.location)
HasUri(resp) == resp.ok /\ IsSome(resp.val.uri)
SupportedMethods == {"HEAD", "GET", "PUT", "DELETE"}

-----------------------------------------------------------------------------
\* C1: in the Object-read and Set-read flows a 303 response carrying the
\* pre-signed URL in Location is delivered only if the request's authorization
\* call returned allow; on deny the caller gets an error response without a
\* pre-signed URL.
C1_RedirectOnlyOnAllow ==
    \A r \in Requests :
        (reqs[r].flow \in {"object", "set"} /\ Done(r)) =>
            /\ HasLocation(Delivered(r)) => reqs[r].outcome = "allow"
            /\ reqs[r].outcome = "deny" =>
                   ~Delivered(r).ok /\ ~HasLocation(Delivered(r))

\* C2: a Sign request whose authorization call returns deny never yields a
\* response containing a URI; the response is an error.
C2_SignDenyNoUri ==
    \A r \in Requests :
        (reqs[r].flow = "sign" /\ Done(r) /\ reqs[r].outcome = "deny") =>
            ~Delivered(r).ok /\ ~HasUri(Delivered(r))

\* C3: when the authorization call fails with a transport or provider error
\* the request ends in a failure response with neither a redirect Location
\* nor a signed URI, in all three authorized flows.
C3_ProviderErrorNotAllow ==
    \A r \in Requests :
        (Authorized(r) /\ Done(r) /\ reqs[r].outcome = "error") =>
            /\ ~Delivered(r).ok
            /\ ~HasLocation(Delivered(r))
            /\ ~HasUri(Delivered(r))

\* C4: a Sign request of an anonymous caller makes no storage client call
\* and ends with an authorization denial carrying no URI.
C4_AnonymousSignRejected ==
    \A r \in Requests :
        (reqs[r].flow = "sign" /\ reqs[r].sub = Anonymous /\ Handled(r)) =>
            /\ CallsOf(r, "build") = {}
            /\ Done(r)
            /\ ~Delivered(r).ok
            /\ ~HasUri(Delivered(r))

-----------------------------------------------------------------------------
\* C5: parse_action maps HEAD and GET to read, PUT to update, DELETE to
\* delete, and fails for every other method string (lower-case variants and
\* the empty string included); the Sign handler authorizes with that action
\* or answers with the unsupported-method error.
C5_ActionMapping ==
    \A r \in Requests :
        (reqs[r].flow = "sign" /\ Handled(r)) =>
            LET m == reqs[r].method
                z == Unwrap(reqs[r].zact)
                want == IF m \in {"HEAD", "GET"} THEN "read"
                        ELSE IF m = "PUT" THEN "update" ELSE "delete"
            IN  IF m \in SupportedMethods
                THEN /\ z.ok /\ z.val = want
                     /\ \A i \in CallsOf(r, "authorize") :
                            reqs[r].trace[i].args[4] = want
                ELSE /\ ~z.ok
                     /\ Done(r)
                     /\ ~Delivered(r).ok
                     /\ Delivered(r).val.kind = "sign_error"

C5_Witness ==
    \E r \in Requests :
        /\ reqs[r].flow = "sign" /\ reqs[r].method = "get" /\ Done(r)
        /\ ~Delivered(r).ok

\* C6: the resource path of every authorization call is
\* <<"buckets", bucket, "sets", set>> when the request has a set, whatever
\* its object, and <<"buckets", bucket, "objects", object>> when it has none.
C6_ResourcePath ==
    \A r \in Requests :
        (Authorized(r) /\ Handled(r)) =>
            \A i \in CallsOf(r, "authorize") :
                reqs[r].trace[i].args[3] =
                    IF IsSome(reqs[r].set)
                    THEN <<"buckets", reqs[r].bucket, "sets", Unwrap(reqs[r].set)>>
                    ELSE <<"buckets", reqs[r].bucket, "objects", reqs[r].object>>

C6_Witness ==
    \E r \in Requests :
        /\ reqs[r].flow = "sign" /\ reqs[r].set = Some(thumbs)
        /\ reqs[r].object = <<"a">>
        /\ \E i \in CallsOf(r, "authorize") :
               reqs[r].trace[i].args[3] = <<"buckets", "media", "sets", thumbs>>

\* The storage key of a storage client call.
KeyOf(call) ==
    IF call.op = "presigned_url" THEN call.args[3] ELSE Unwrap(call.args[1].object)

\* C7: the key handed to the storage client is set + "." + object when the
\* request has a set and the object unchanged when it has none; set "thumbs"
\* with object "cat.png" gives "thumbs.cat.png".
C7_CanonicalKey ==
    \A r \in Requests :
        (Authorized(r) /\ Handled(r)) =>
            \A i \in CallsOf(r, "presigned_url") \cup CallsOf(r, "build") :
                LET k == KeyOf(reqs[r].trace[i])
                IN  /\ k = IF IsSome(reqs[r].set)
                           THEN Unwrap(reqs[r].set) \o <<".">> \o reqs[r].object
                           ELSE reqs[r].object
                    /\ (reqs[r].set = Some(thumbs) /\ reqs[r].object = catpng) =>
                           k = <<"t", "h", "u", "m", "b", "s", ".",
                                 "c", "a", "t", ".", "p", "n", "g">>
                    /\ (reqs[r].set = None /\ reqs[r].object = catpng) =>
                           k = <<"c", "a", "t", ".", "p", "n", "g">>

C7_Witness ==
    \E r \in Requests :
        /\ reqs[r].flow = "set" /\ reqs[r].set = Some(thumbs)
        /\ reqs[r].object = catpng
        /\ \E i \in CallsOf(r, "presigned_url") :
               Len(KeyOf(reqs[r].trace[i])) = 14

PeriodFree(s) == \A i \in 1..Len(s) : s[i] # "."

\* The set reads whose set and object are non-empty and hold no period.
Plain(r) ==
    /\ reqs[r].flow = "set" /\ Handled(r)
    /\ Unwrap(reqs[r].set) # <<>> /\ reqs[r].object # <<>>
    /\ PeriodFree(Unwrap(reqs[r].set)) /\ PeriodFree(reqs[r].object)

StorageKey(r) == KeyOf(reqs[r].trace[1])

\* C8: over non-empty set and object values without a period the canonical
\* key is injective: two requests with different (set, object) never hand the
\* same key to the storage client.
C8_KeyInjective ==
    \A r1, r2 \in Requests :
        (Plain(r1) /\ Plain(r2) /\ StorageKey(r1) = StorageKey(r2)) =>
            /\ reqs[r1].set = reqs[r2].set
            /\ reqs[r1].object = reqs[r2].object

C8_Witness ==
    \E r1, r2 \in Requests :
        /\ Plain(r1) /\ Plain(r2)
        /\ Unwrap(reqs[r1].set) = <<"a">> /\ reqs[r1].object = <<"a", "a">>
        /\ Unwrap(reqs[r2].set) = <<"a", "a">> /\ reqs[r2].object = <<"a">>
        /\ StorageKey(r1) # StorageKey(r2)

\* C9: a Sign request with a method outside HEAD, GET, PUT, DELETE ends with
\* the unsupported-method error and issues no authorization call.
C9_UnsupportedMethod ==
    \A r \in Requests :
        (reqs[r].flow = "sign" /\ Handled(r)
           /\ reqs[r].method \notin SupportedMethods) =>
            /\ Done(r)
            /\ ~Delivered(r).ok
            /\ Delivered(r).val.kind = "sign_error"
            /\ Delivered(r).val.detail = <<"invalid method = ", reqs[r].method>>
            /\ CallsOf(r, "authorize") = {}

C9_Witness ==
    \E r \in Requests :
        /\ reqs[r].flow = "sign" /\ reqs[r].method = "PATCH" /\ Done(r)
        /\ reqs[r].bucket = "media"
        /\ ~Delivered(r).ok

\* C10: in every authorized flow a request for a bucket whose audience
\* estimation fails ends with an error response and never issues an
\* authorization call.
C10_EstimationFailure ==
    \A r \in Requests :
        (Authorized(r) /\ Handled(r) /\ ~estimate(reqs[r].bucket).ok) =>
            /\ Done(r)
            /\ ~Delivered(r).ok
            /\ reqs[r].outcome = "none"
            /\ CallsOf(r, "authorize") = {}

C10_Witness ==
    \E r1, r2 \in Requests :
        /\ reqs[r1].flow = "object" /\ reqs[r1].bucket = "nowhere" /\ Done(r1)
        /\ CallsOf(r1, "estimate") # {}
        /\ Delivered(r1).val.kind = "audience_estimation_error"
        /\ reqs[r2].flow = "sign" /\ reqs[r2].bucket = "nowhere" /\ Done(r2)
        /\ CallsOf(r2, "estimate") # {}
        /\ Delivered(r2).val.kind = "audience_estimation_error"

-----------------------------------------------------------------------------
\* C11: an Object-read or Set-read request whose audience estimation fails
\* returns its error response without the storage client having been invoked:
\* the request makes no presigned_url call.
C11_NoStorageOnEstimationFailure ==
    \A r \in Requests :
        (reqs[r].flow \in {"object", "set"} /\ Handled(r)
           /\ ~estimate(reqs[r].bucket).ok) =>
            /\ Done(r)
            /\ ~Delivered(r).ok
            /\ CallsOf(r, "presigned_url") = {}

\* Call i of request r comes after a call of kind op.
Preceded(r, i, op) == \E j \in CallsOf(r, op) : j < i

\* C12: in the Sign flow the storage client is asked to build the signed
\* URI only after the audience estimation of the request has succeeded, and
\* the authorization call is issued only after the URI has been built.
C12_SignOrder ==
    \A r \in Requests :
        (reqs[r].flow = "sign" /\ Handled(r)) =>
            /\ \A i \in CallsOf(r, "build") :
                   estimate(reqs[r].bucket).ok /\ Preceded(r, i, "estimate")
            /\ \A i \in CallsOf(r, "authorize") : Preceded(r, i, "build")

\* The request ended, without an authorization call, with the error of kind k.
EndedWith(r, k) ==
    Done(r) /\ reqs[r].outcome = "none" /\ ~Delivered(r).ok
            /\ Delivered(r).val.kind = k

\* Action mapping, audience estimation and (for Sign) the build of the URI
\* all succeeded for request r.
Prepared(r) ==
    /\ Authorized(r) /\ Handled(r)
    /\ reqs[r].flow = "sign" => reqs[r].method \in SupportedMethods
    /\ reqs[r].bucket \in DOMAIN AudienceRules
    /\ ~EndedWith(r, "signed_request_build_error")

\* C13: a request issues at most one authorization call, exactly one when
\* its action mapping, audience estimation and URI building succeed, and none
\* is issued after the call has returned.
C13_AuthorizeOnce ==
    \A r \in Requests :
        /\ Cardinality(CallsOf(r, "authorize")) <= 1
        /\ Prepared(r) => Cardinality(CallsOf(r, "authorize")) = 1
        /\ (Handled(r) /\ ~Prepared(r)) => CallsOf(r, "authorize") = {}
        /\ reqs[r].outcome # "none" =>
               /\ Done(r)
               /\ reqs[r].trace[Len(reqs[r].trace)].op = "authorize"

C13_Witness ==
    \E r \in Requests :
        /\ reqs[r].flow = "sign" /\ Done(r) /\ reqs[r].outcome = "deny"
        /\ Cardinality(CallsOf(r, "authorize")) = 1

-----------------------------------------------------------------------------
\* Terminal states of a request of an authorized flow.
Allowed(r) == Done(r) /\ reqs[r].outcome = "allow"
Denied(r) == Done(r) /\ reqs[r].outcome = "deny"
Failed(r) == Done(r) /\ reqs[r].outcome \in {"none", "error"}
Terminal(r) == Allowed(r) \/ Denied(r) \/ Failed(r)

\* C14: every request of an authorized flow reaches a terminal state
\* (provided the authorization provider answers), is then in exactly one of
\* Allowed, Denied, Failed, and never changes again.
C14_Terminates ==
    /\ \A r \in Requests : (Authorized(r) /\ Handled(r)) ~> Terminal(r)
    /\ [][\A r \in Requests :
            (Authorized(r) /\ Terminal(r)) => reqs'[r] = reqs[r]]_vars
    /\ [](\A r \in Requests :
            (Authorized(r) /\ Done(r)) =>
                Cardinality({s \in {"allowed", "denied", "failed"} :
                    \/ s = "allowed" /\ Allowed(r)
                    \/ s = "denied" /\ Denied(r)
                    \/ s = "failed" /\ Failed(r)}) = 1)

C14_Witness ==
    \E r1, r2 \in Requests :
        /\ reqs[r1].flow = "sign" /\ Denied(r1)
        /\ reqs[r2].flow = "object" /\ reqs[r2].pc = "pending"

-----------------------------------------------------------------------------
\* C15: a Healthz request returns 200 with an empty body whatever the other
\* requests are doing, and makes no audience estimation, authorization or
\* storage client call.
C15_Healthz ==
    \A r \in Requests :
        (reqs[r].flow = "healthz" /\ Handled(r)) =>
            /\ Done(r)
            /\ Delivered(r).ok
            /\ Delivered(r).val.status = "200"
            /\ Delivered(r).val.body = ""
            /\ Delivered(r).val.location = None
            /\ Delivered(r).val.uri = None
            /\ reqs[r].trace = <<>>
            /\ reqs[r].outcome = "none"

C15_Witness ==
    \E r1, r2 \in Requests :
        /\ reqs[r1].flow = "sign" /\ reqs[r1].pc = "pending"
        /\ reqs[r2].flow = "healthz" /\ Done(r2)
        /\ Delivered(r2).val.status = "200"

-----------------------------------------------------------------------------
\* The key the request's artifact is about.
OwnKey(r) ==
    IF IsSome(reqs[r].set)
    THEN Unwrap(reqs[r].set) \o <<".">> \o reqs[r].object
    ELSE reqs[r].object

\* The artifact of request r: the redirect to the pre-signed GET URL of its
\* bucket and key, or the URI signed for its method, bucket, key and headers.
OwnArtifact(r) ==
    IF reqs[r].flow = "sign"
    THEN [ok |-> TRUE,
          val |-> [status |-> "200", location |-> None, body |-> "",
                   uri |-> Some(<<"signed", reqs[r].method, reqs[r].bucket,
                                  OwnKey(r), reqs[r].headers>>)]]
    ELSE [ok |-> TRUE,
          val |-> [status |-> "303", uri |-> None, body |-> "",
                   location |-> Some(<<"presigned", "GET", reqs[r].bucket,
                                       OwnKey(r)>>)]]

\* C16: the artifact is computed before the authorization call is issued,
\* held unchanged while the call is pending, and on allow it is exactly what
\* the response carries.
C16_ArtifactOnAllow ==
    \A r \in Requests :
        Authorized(r) =>
            /\ reqs[r].pc = "pending" =>
                   reqs[r].held = Some(OwnArtifact(r))
            /\ (Done(r) /\ reqs[r].outcome = "allow") =>
                   /\ reqs[r].held = Some(OwnArtifact(r))
                   /\ Delivered(r) = OwnArtifact(r)

C16_Witness ==
    \E r \in Requests :
        /\ reqs[r].flow = "sign" /\ Done(r) /\ reqs[r].outcome = "allow"
        /\ reqs[r].set = Some(thumbs) /\ reqs[r].method = "PUT"
        /\ DOMAIN reqs[r].headers = {"range"}
        /\ Unwrap(Delivered(r).val.uri)[5]["range"] = "bytes=0-9"

-----------------------------------------------------------------------------
\* The action a request is authorized for.
OwnAction(r) ==
    IF reqs[r].flow \in {"object", "set"} THEN "read"
    ELSE IF reqs[r].method \in {"HEAD", "GET"} THEN "read"
    ELSE IF reqs[r].method = "PUT" THEN "update"
    ELSE "delete"

\* The resource a request is authorized on.
OwnResource(r) ==
    IF IsSome(reqs[r].set)
    THEN <<"buckets", reqs[r].bucket, "sets", Unwrap(reqs[r].set)>>
    ELSE <<"buckets", reqs[r].bucket, "objects", reqs[r].object>>

\* C17: every authorization call carries the audience estimated from the
\* request's bucket, the request's subject, its resource path and its
\* action: read in the read flows, the mapped method in the Sign flow.
C17_AuthorizeArguments ==
    \A r \in Requests :
        \A i \in CallsOf(r, "authorize") :
            /\ Authorized(r)
            /\ reqs[r].bucket \in DOMAIN AudienceRules
            /\ reqs[r].trace[i].args =
                   <<AudienceRules[reqs[r].bucket], reqs[r].sub,
                     OwnResource(r), OwnAction(r)>>

C17_Witness ==
    \E r \in Requests :
        /\ reqs[r].flow = "sign" /\ reqs[r].method = "DELETE"
        /\ reqs[r].bucket = "docs" /\ reqs[r].sub = "alice"
        /\ reqs[r].pc = "pending"
        /\ \E i \in CallsOf(r, "authorize") :
               /\ reqs[r].trace[i].args[1] = "example.net"
               /\ reqs[r].trace[i].args[4] = "delete"

-----------------------------------------------------------------------------
\* C18: when the storage client rejects the signed-request specification of
\* a Sign request, the handler returns the build error: no URI, no audience
\* estimation and no authorization call.
C18_BuildFailure ==
    [][\A r \in Requests, sub \in Subjects,
          body \in SignPayloads(WideBuckets, WideSetNames, WideObjectNames,
                                SupportedMethods, WideHeaderMaps) :
          SignSign(r, body, sub, FALSE) =>
              /\ reqs'[r].pc = "done"
              /\ ~Unwrap(reqs'[r].response).ok
              /\ Unwrap(reqs'[r].response).val.kind = "signed_request_build_error"
              /\ reqs'[r].held = None
              /\ Len(reqs'[r].trace) = 1
              /\ reqs'[r].trace[1].op = "build"]_vars

C18_Witness ==
    \E r \in Requests :
        /\ reqs[r].flow = "sign" /\ EndedWith(r, "signed_request_build_error")
        /\ reqs[r].bucket = "nowhere"
        /\ CallsOf(r, "build") = {1}
        /\ CallsOf(r, "estimate") = {}

-----------------------------------------------------------------------------
\* C19: with several requests in flight and their authorization calls
\* completing in any order, a request is completed only by its own
\* authorization call, the completion of one request changes no other
\* request, and an artifact delivered to a request is the one built from
\* that request's own inputs.
C19_Isolation ==
    /\ [](\A r \in Requests :
            (Authorized(r) /\ Done(r) /\ Delivered(r).ok) =>
                /\ reqs[r].outcome # "none"
                /\ Delivered(r) = OwnArtifact(r))
    /\ [][\A r \in Requests :
            reqs'[r] # reqs[r] =>
                /\ \A q \in Requests \ {r} : reqs'[q] = reqs[q]
                /\ reqs[r].pc = "pending" =>
                       /\ reqs'[r].pc = "done"
                       /\ reqs'[r].outcome \in AuthzOutcomes
                       /\ reqs'[r].response = reqs[r].held
                       /\ reqs'[r] = [reqs[r] EXCEPT
                                         !.pc = "done",
                                         !.outcome = reqs'[r].outcome,
                                         !.response = reqs[r].held]]_vars

C19_Witness ==
    \E r1, r2 \in Requests :
        /\ r1 < r2
        /\ reqs[r1].flow = "object" /\ reqs[r1].pc = "pending"
        /\ reqs[r2].flow = "set" /\ Done(r2) /\ reqs[r2].outcome = "allow"
        /\ reqs[r1].held # reqs[r2].held
        /\ Delivered(r2) = OwnArtifact(r2)

-----------------------------------------------------------------------------
\* C20: a Sign request with an unsupported method is answered 403 Forbidden,
\* kind sign_error, before the builder is created: the request calls neither
\* the storage client nor the audience estimator.
C20_UnsupportedMethodForbidden ==
    \A r \in Requests :
        (reqs[r].flow = "sign" /\ Handled(r)
           /\ reqs[r].method \notin SupportedMethods) =>
            /\ EndedWith(r, "sign_error")
            /\ Delivered(r).val.status = "403"
            /\ reqs[r].trace = <<>>
            /\ reqs[r].held = None

C20_Witness ==
    \E r \in Requests :
        /\ reqs[r].flow = "sign" /\ reqs[r].method = "" /\ Done(r)
        /\ reqs[r].bucket = "nowhere"
        /\ reqs[r].headers # <<>>
        /\ Delivered(r).val.status = "403"

====
